---- MODULE Spec2Model ----
(***************************************************************************)
(* Server actions of app/lib/actions.ts: authenticate, createInvoice,      *)
(* updateInvoice and deleteInvoice, together with the invoices table they  *)
(* write, the clock they read, and the cache / navigation calls they make. *)
(*                                                                         *)
(* One invocation runs at a time.  An invocation is split at its awaits:   *)
(* the synchronous prefix (validation, normalisation) is one step, the     *)
(* awaited statement is one step, revalidatePath and redirect are one step *)
(* each.  The clock may advance between steps.                             *)
(*                                                                         *)
(* JavaScript numbers are modelled as exact decimals with FracDigits       *)
(* fractional digits (an integer count of 10^-FracDigits), plus NaN.       *)
(***************************************************************************)
EXTENDS Integers, Sequences, FiniteSets, TLC

VARIABLES
    invoices,   \* the invoices table: a set of rows
    now,        \* the clock, in hours since the epoch (UTC)
    op,         \* the action of the current (or last) invocation
    pc,         \* where that invocation stands
    args,       \* its arguments: [id, formData] (create: id unused)
    data,       \* validatedFields.data and the values derived from it
    result,     \* how the invocation ended: [kind, value]
    events,     \* the outward calls it made, in order
    provider,   \* how the awaited signIn call ended, once it has
    before,     \* the table when the invocation started
    startedAt   \* the clock when the invocation started

vars ==
    <<invoices, now, op, pc, args, data, result, events, provider, before,
      startedAt>>

---------------------------------------------------------------------------
(* Bounds of the model *)

MaxRows == 2        \* rows the table may hold
MaxTicks == 2       \* hours the clock may advance
FracDigits == 3     \* fractional decimal digits a number keeps

---------------------------------------------------------------------------
(* Numbers *)

RECURSIVE Pow10(_)
Pow10(n) == IF n = 0 THEN 1 ELSE 10 * Pow10(n - 1)

Scale == Pow10(FracDigits)

Num(v) == [nan |-> FALSE, v |-> v]
NaN == [nan |-> TRUE, v |-> 0]

DigitChars == <<"0", "1", "2", "3", "4", "5", "6", "7", "8", "9">>
IsDigit(c) == \E i \in 1..10 : DigitChars[i] = c
DigitVal(c) == (CHOOSE i \in 1..10 : DigitChars[i] = c) - 1

RECURSIVE TrimLeft(_)
TrimLeft(s) == IF s # <<>> /\ Head(s) = " " THEN TrimLeft(Tail(s)) ELSE s

RECURSIVE TrimRight(_)
TrimRight(s) ==
    IF s # <<>> /\ s[Len(s)] = " " THEN TrimRight(SubSeq(s, 1, Len(s) - 1)) ELSE s

\* The value of a run of digits as an integer.
RECURSIVE IntDigits(_)
IntDigits(s) ==
    IF s = <<>> THEN 0 ELSE 10 * IntDigits(SubSeq(s, 1, Len(s) - 1)) + DigitVal(s[Len(s)])

\* The value of a run of digits after the decimal point, in units of 1/Scale.
RECURSIVE FracDigitsValue(_, _)
FracDigitsValue(s, place) ==
    IF s = <<>> \/ place = 0 THEN 0
    ELSE DigitVal(Head(s)) * Pow10(place - 1) + FracDigitsValue(Tail(s), place - 1)

\* A decimal literal without its sign: digits, at most one point, at least
\* one digit.  dot is the place of the point, or one past the end.
WellFormed(body, dot) ==
    /\ \A i \in 1..Len(body) : i = dot \/ IsDigit(body[i])
    /\ Len(body) > (IF dot <= Len(body) THEN 1 ELSE 0)

Magnitude(body, dot) ==
    IntDigits(SubSeq(body, 1, dot - 1)) * Scale
        + FracDigitsValue(SubSeq(body, dot + 1, Len(body)), FracDigits)

FirstDot(body) ==
    IF \E i \in 1..Len(body) : body[i] = "."
    THEN CHOOSE i \in 1..Len(body) :
            body[i] = "." /\ \A j \in 1..(i - 1) : body[j] # "."
    ELSE Len(body) + 1

UnsignedToNumber(body, dot) ==
    IF WellFormed(body, dot) THEN Num(Magnitude(body, dot)) ELSE NaN

Negate(n) == IF n.nan THEN n ELSE Num(0 - n.v)

TrimmedToNumber(t) ==
    IF t = <<>> THEN Num(0)
    ELSE IF Head(t) = "-" THEN Negate(UnsignedToNumber(Tail(t), FirstDot(Tail(t))))
    ELSE IF Head(t) = "+" THEN UnsignedToNumber(Tail(t), FirstDot(Tail(t)))
    ELSE UnsignedToNumber(t, FirstDot(t))

\* Number(text) for a string: whitespace is trimmed, the empty string is 0,
\* a signed decimal literal is its value, anything else is NaN.
StringToNumber(text) == TrimmedToNumber(TrimRight(TrimLeft(text)))

---------------------------------------------------------------------------
(* Form values: FormData.get gives null for an absent field, else its text *)

JsNull == [type |-> "null"]
Str(t) == [type |-> "string", text |-> t]

\* Number(input), the coercion of z.coerce.number(): Number(null) is 0.
CoerceNumber(v) == IF v.type = "null" THEN Num(0) ELSE StringToNumber(v.text)

---------------------------------------------------------------------------
(* FormSchema: each field's check gives the list of its issue messages *)

StatusValues == {"pending", "paid"}

\* Mutant: the schema without its invalid_type_error option.
CustomerIdIssuesDefaultMessage(v) ==
    IF v.type = "string" THEN <<>> ELSE <<"Expected string, received null">>

\* z.string({ invalid_type_error }): any string passes, the empty one too.
CustomerIdIssues(v) ==
    IF v.type = "string" THEN <<>> ELSE <<"Please select a customer">>

\* z.coerce.number().gt(0, { message }): a NaN is an invalid_type issue with
\* the library's own message, and the gt check is not run on it.
NumberIssues(n) ==
    IF n.nan THEN <<"Expected number, received nan">>
    ELSE IF n.v > 0 THEN <<>>
    ELSE <<"Amount must be greater than 0">>

AmountIssues(v) == NumberIssues(CoerceNumber(v))

\* z.enum([...], { invalid_type_error }): invalid_type_error is the message of
\* a non-string only; a string outside the enumeration is an
\* invalid_enum_value issue with the library's own message.
StatusIssues(v) ==
    IF v.type # "string" THEN <<"Please select a valid status">>
    ELSE IF v.text \in StatusValues THEN <<>>
    ELSE <<"Invalid enum value. Expected 'pending' | 'paid', received '"
              \o v.text \o "'">>

Fields == {"customerId", "amount", "status"}

Issues(formData) ==
    [customerId |-> CustomerIdIssues(formData.customerId),
     amount |-> AmountIssues(formData.amount),
     status |-> StatusIssues(formData.status)]

\* error.flatten().fieldErrors: only the fields that have issues are keys.
FieldErrors(issues) == [f \in {g \in Fields : issues[g] # <<>>} |-> issues[f]]

ParseResult(formData, fieldErrors) ==
    IF DOMAIN fieldErrors = {}
    THEN [success |-> TRUE,
          fieldErrors |-> fieldErrors,
          parsed |-> [customerId |-> formData.customerId.text,
                      amount |-> CoerceNumber(formData.amount),
                      status |-> formData.status.text]]
    ELSE [success |-> FALSE,
          fieldErrors |-> fieldErrors,
          parsed |-> [customerId |-> "", amount |-> NaN, status |-> ""]]

\* CreateInvoice.safeParse / UpdateInvoice.safeParse (the same schema).
SafeParse(formData) == ParseResult(formData, FieldErrors(Issues(formData)))

\* const amountInCents = amount * 100
AmountInCents(amount) == IF amount.nan THEN NaN ELSE Num(amount.v * 100)

\* new Date().toISOString().split('T')[0]: the UTC calendar day of the clock.
HoursPerDay == 24
ToISOString(t) == [date |-> t \div HoursPerDay, time |-> t % HoursPerDay]
ISODate(t) == ToISOString(t).date

---------------------------------------------------------------------------
(* Results, errors and outward calls *)

Pending == [kind |-> "none", value |-> <<>>]
Return(v) == [kind |-> "return", value |-> v]
Throw(e) == [kind |-> "throw", value |-> e]

Undefined == [type |-> "undefined"]

Error(message) == [class |-> "Error", type |-> "", message |-> message]
AuthError(type) == [class |-> "AuthError", type |-> type, message |-> ""]
\* redirect() ends the action by throwing the framework's redirect signal.
RedirectError(path) == [class |-> "NEXT_REDIRECT", type |-> "", message |-> path]

InvoicesPath == "/dashboard/invoices"

SqlOk(statement) == <<"sql:ok", statement>>
SqlError(statement) == <<"sql:error", statement>>
ConsoleError == <<"console.error", "error">>
RevalidatePathCall == <<"revalidatePath", InvoicesPath>>
RedirectCall == <<"redirect", InvoicesPath>>
SignInCall == <<"signIn", "credentials">>

NoData == [customerId |-> "", amount |-> NaN, status |-> "",
           amountInCents |-> NaN, date |-> 0]
NoForm == [customerId |-> JsNull, amount |-> JsNull, status |-> JsNull]

---------------------------------------------------------------------------
(* Inputs *)

CustomerIdInputs == {JsNull, Str("c1")}
AmountInputs ==
    {JsNull, Str(<<>>), Str(<<"a", "b", "c">>), Str(<<"-", "1">>),
     Str(<<"0", ".", "0", "0", "1">>), Str(<<"1", "2", ".", "3", "4">>),
     Str(<<"1", "2", ".", "3", "4", "5">>)}
StatusInputs == {JsNull, Str("draft"), Str("pending")}

FormDatas ==
    [customerId : CustomerIdInputs, amount : AmountInputs, status : StatusInputs]

\* Identifiers: those of the rows the table may hold, and one of no row.
Ids == 1..(MaxRows + 1)

AuthErrorTypes ==
    {"CredentialsSignin", "CallbackRouteError", "OAuthAccountNotLinked",
     "MissingAdapter"}

\* How the awaited signIn call may end.
SignInOutcomes ==
    {Return(Undefined)}
        \cup {Throw(AuthError(t)) : t \in AuthErrorTypes}
        \cup {Throw(RedirectError("/dashboard")), Throw(Error("fetch failed"))}

---------------------------------------------------------------------------
(* The initial state *)

SeedRow ==
    [id |-> 1, customer_id |-> "c2", amount |-> 1000 * Scale,
     status |-> "paid", date |-> 0]

Init ==
    /\ invoices = {SeedRow}
    /\ now = HoursPerDay - 1
    /\ op = "none"
    /\ pc = "idle"
    /\ args = [id |-> 0, formData |-> NoForm]
    /\ data = NoData
    /\ result = Pending
    /\ events = <<>>
    /\ provider = Pending
    /\ before = {}
    /\ startedAt = 0

---------------------------------------------------------------------------
(* Steps common to the actions *)

Begin(action, id, formData) ==
    /\ pc = "idle"
    /\ op' = action
    /\ args' = [id |-> id, formData |-> formData]
    /\ before' = invoices
    /\ startedAt' = now
    /\ provider' = Pending
    /\ UNCHANGED now

\* What createInvoice and updateInvoice do with validatedFields: the early
\* return on failure, else the destructuring and the derived values.
Validated(validatedFields, failureMessage, statementPc) ==
    /\ UNCHANGED invoices
    /\ events' = <<>>
    /\ IF ~validatedFields.success
       THEN /\ result' = Return([errors |-> validatedFields.fieldErrors,
                                 message |-> failureMessage])
            /\ data' = NoData
            /\ pc' = "done"
       ELSE /\ result' = Pending
            /\ data' = [customerId |-> validatedFields.parsed.customerId,
                        amount |-> validatedFields.parsed.amount,
                        status |-> validatedFields.parsed.status,
                        amountInCents |->
                            AmountInCents(validatedFields.parsed.amount),
                        date |-> ISODate(now)]
            /\ pc' = statementPc

\* The synchronous prefix of createInvoice and updateInvoice.
Validate(formData, failureMessage, statementPc) ==
    Validated(SafeParse(formData), failureMessage, statementPc)

\* Mutant: redirect placed before revalidatePath, which it then cuts off.
AfterStatementRedirects == "redirect"

\* Where a successful statement continues: revalidatePath, then redirect.
AfterStatement == "revalidate"
AfterRevalidate == "redirect"

\* Mutant: a catch block that logs and does not return.
StatementFailsFallsThrough(statement, message) ==
    /\ events' = events \o <<SqlError(statement), ConsoleError>>
    /\ pc' = AfterStatement
    /\ UNCHANGED <<invoices, now, op, args, data, result, provider, before,
                   startedAt>>

\* The catch block of a failed statement: console.error, return the message.
StatementFails(statement, message) ==
    /\ events' = events \o <<SqlError(statement), ConsoleError>>
    /\ result' = Return([message |-> message])
    /\ pc' = "done"
    /\ UNCHANGED <<invoices, now, op, args, data, provider, before, startedAt>>

RevalidatePath ==
    /\ pc = "revalidate"
    /\ events' = Append(events, RevalidatePathCall)
    /\ pc' = AfterRevalidate
    /\ UNCHANGED <<invoices, now, op, args, data, result, provider, before, startedAt>>

Redirect ==
    /\ pc = "redirect"
    /\ events' = Append(events, RedirectCall)
    /\ result' = Throw(RedirectError(InvoicesPath))
    /\ pc' = "done"
    /\ UNCHANGED <<invoices, now, op, args, data, provider, before, startedAt>>

---------------------------------------------------------------------------
(* createInvoice *)

CreateInvoice(formData) ==
    /\ Cardinality(invoices) < MaxRows
    /\ Begin("createInvoice", 0, formData)
    /\ Validate(formData, "Missing Fields. Failed to Create Invoice.", "insert")

\* The identifier the store gives a new row.
FreshId == CHOOSE i \in 1..MaxRows :
    /\ \A r \in invoices : r.id # i
    /\ \A j \in 1..(i - 1) : \E r \in invoices : r.id = j

\* Mutant: the date taken when the statement runs, not when the action
\* computed it.
InsertedRowDatedByStatement ==
    [id |-> FreshId, customer_id |-> data.customerId,
     amount |-> data.amountInCents.v, status |-> data.status,
     date |-> ISODate(now)]

\* INSERT INTO invoices (customer_id, amount, status, date) VALUES (...)
InsertedRow ==
    [id |-> FreshId, customer_id |-> data.customerId,
     amount |-> data.amountInCents.v, status |-> data.status,
     date |-> data.date]

InsertSucceeds ==
    /\ pc = "insert"
    /\ invoices' = invoices \cup {InsertedRow}
    /\ events' = Append(events, SqlOk("INSERT"))
    /\ pc' = AfterStatement
    /\ UNCHANGED <<now, op, args, data, result, provider, before, startedAt>>

InsertFails ==
    /\ pc = "insert"
    /\ StatementFails("INSERT", "Database error")

---------------------------------------------------------------------------
(* updateInvoice *)

UpdateInvoice(id, formData) ==
    /\ Begin("updateInvoice", id, formData)
    /\ Validate(formData, "Missing Fields. Failed to Update Invoice.", "update")

\* UPDATE invoices SET customer_id = .., amount = .., status = .. WHERE id = ..
UpdatedRow(r) ==
    [r EXCEPT !.customer_id = data.customerId,
              !.amount = data.amountInCents.v,
              !.status = data.status]

\* Mutant: the statement without its WHERE clause.
UpdateMatchesEveryRow(r) == TRUE

UpdateMatches(r) == r.id = args.id

UpdateSucceeds ==
    /\ pc = "update"
    /\ invoices' = {IF UpdateMatches(r) THEN UpdatedRow(r) ELSE r : r \in invoices}
    /\ events' = Append(events, SqlOk("UPDATE"))
    /\ pc' = AfterStatement
    /\ UNCHANGED <<now, op, args, data, result, provider, before, startedAt>>

UpdateFails ==
    /\ pc = "update"
    /\ StatementFails("UPDATE", "Database error: Faild to Update")

---------------------------------------------------------------------------
(* deleteInvoice *)

\* Mutant: the body without its opening throw.
DeleteThrowRemoved == TRUE

\* Whether control gets past the throw statement that opens the body.
DeleteReachesStatement == FALSE

DeleteInvoice(id) ==
    /\ Begin("deleteInvoice", id, NoForm)
    /\ data' = NoData
    /\ pc' = "done"
    /\ IF DeleteReachesStatement
       THEN /\ invoices' = {r \in invoices : r.id # id}
            /\ events' = <<SqlOk("DELETE"), RevalidatePathCall>>
            /\ result' = Return(Undefined)
       ELSE /\ result' = Throw(Error("Faild to Delete"))
            /\ events' = <<>>
            /\ UNCHANGED invoices

---------------------------------------------------------------------------
(* authenticate *)

Authenticate ==
    /\ Begin("authenticate", 0, NoForm)
    /\ data' = NoData
    /\ result' = Pending
    /\ events' = <<SignInCall>>
    /\ pc' = "signIn"
    /\ UNCHANGED invoices

\* Mutant: a catch block without the instanceof test and the final throw.
AuthenticateResultCatchAll(outcome) ==
    IF outcome.kind = "return" THEN Return(Undefined)
    ELSE IF outcome.value.type = "CredentialsSignin"
    THEN Return("Invalid credentials.")
    ELSE Return("Someting went wrong")

\* The try / catch around signIn.
AuthenticateResult(outcome) ==
    IF outcome.kind = "return" THEN Return(Undefined)
    ELSE IF outcome.value.class = "AuthError"
    THEN IF outcome.value.type = "CredentialsSignin"
         THEN Return("Invalid credentials.")
         ELSE Return("Someting went wrong")
    ELSE Throw(outcome.value)

SignInSettles(outcome) ==
    /\ pc = "signIn"
    /\ provider' = outcome
    /\ result' = AuthenticateResult(outcome)
    /\ pc' = "done"
    /\ UNCHANGED <<invoices, now, op, args, data, events, before, startedAt>>

---------------------------------------------------------------------------
(* The end of an invocation: nothing of it is kept for the next one *)

Complete ==
    /\ pc = "done"
    /\ pc' = "idle"
    /\ op' = "none"
    /\ args' = [id |-> 0, formData |-> NoForm]
    /\ data' = NoData
    /\ result' = Pending
    /\ events' = <<>>
    /\ provider' = Pending
    /\ before' = {}
    /\ startedAt' = 0
    /\ UNCHANGED <<invoices, now>>

---------------------------------------------------------------------------
(* The clock *)

Tick ==
    /\ now < HoursPerDay - 1 + MaxTicks
    /\ now' = now + 1
    /\ UNCHANGED <<invoices, op, pc, args, data, result, events, provider,
                   before, startedAt>>

---------------------------------------------------------------------------

Next ==
    \/ \E formData \in FormDatas : CreateInvoice(formData)
    \/ InsertSucceeds
    \/ InsertFails
    \/ \E id \in Ids, formData \in FormDatas : UpdateInvoice(id, formData)
    \/ UpdateSucceeds
    \/ UpdateFails
    \/ RevalidatePath
    \/ Redirect
    \/ \E id \in Ids : DeleteInvoice(id)
    \/ Authenticate
    \/ \E outcome \in SignInOutcomes : SignInSettles(outcome)
    \/ Complete
    \/ Tick

Spec == Init /\ [][Next]_vars

---------------------------------------------------------------------------
(* Vocabulary of the properties *)

Writers == {"createInvoice", "updateInvoice"}
Statement == IF op = "createInvoice" THEN "INSERT" ELSE "UPDATE"
Occurred(e) == \E i \in 1..Len(events) : events[i] = e
Count(e) == Cardinality({i \in 1..Len(events) : events[i] = e})
Contains(messages, m) == \E i \in 1..Len(messages) : messages[i] = m

Submitted == args.formData
CustomerIdMissing == Submitted.customerId.type = "null"
StatusOutsideEnum ==
    Submitted.status.type = "null" \/ Submitted.status.text \notin StatusValues
AmountNotANumber == CoerceNumber(Submitted.amount).nan
AmountNotPositive ==
    ~CoerceNumber(Submitted.amount).nan /\ CoerceNumber(Submitted.amount).v <= 0
FailsValidation ==
    CustomerIdMissing \/ StatusOutsideEnum \/ AmountNotANumber \/ AmountNotPositive

ReturnedFieldErrors ==
    /\ result.kind = "return"
    /\ DOMAIN result.value = {"errors", "message"}
    /\ DOMAIN result.value.errors # {}
    /\ DOMAIN result.value.errors \subseteq Fields
ReturnedMessageOnly ==
    /\ result.kind = "return"
    /\ DOMAIN result.value = {"message"}
Redirected ==
    /\ result.kind = "throw"
    /\ result.value = RedirectError(InvoicesPath)

SuccessEvents == <<SqlOk(Statement), RevalidatePathCall, RedirectCall>>
FailureEvents == <<SqlError(Statement), ConsoleError>>

---------------------------------------------------------------------------
(* C1: a createInvoice or updateInvoice submission in which a field fails  *)
(* validation ends at once with a field-error map and the action's         *)
(* 'Missing Fields' message; a missing customerId is reported under the    *)
(* customerId key as 'Please select a customer'; no statement is issued,   *)
(* the table is as it was, and nothing is revalidated or redirected.       *)
C1_ValidationFailure ==
    (op \in Writers /\ FailsValidation) =>
        /\ pc = "done"
        /\ ReturnedFieldErrors
        /\ result.value.message =
              (IF op = "createInvoice"
               THEN "Missing Fields. Failed to Create Invoice."
               ELSE "Missing Fields. Failed to Update Invoice.")
        /\ CustomerIdMissing =>
              /\ "customerId" \in DOMAIN result.value.errors
              /\ result.value.errors.customerId = <<"Please select a customer">>
        /\ events = <<>>
        /\ invoices = before

C1_Witness ==
    /\ op = "updateInvoice"
    /\ pc = "done"
    /\ CustomerIdMissing
    /\ ~StatusOutsideEnum /\ ~AmountNotANumber /\ ~AmountNotPositive
    /\ \E r \in invoices : r.id = args.id
    /\ ReturnedFieldErrors
    /\ DOMAIN result.value.errors = {"customerId"}

(* C2: every status outside {pending, paid}, missing or any other string,  *)
(* is reported under the status key as 'Please select a valid status'.     *)
C2_StatusMessage ==
    (op \in Writers /\ pc = "done" /\ StatusOutsideEnum) =>
        /\ ReturnedFieldErrors
        /\ "status" \in DOMAIN result.value.errors
        /\ Contains(result.value.errors.status, "Please select a valid status")

(* C3: every amount that is not greater than 0 after coercion, missing,    *)
(* empty and non-numeric input included, is reported under the amount key  *)
(* as 'Amount must be greater than 0'.                                     *)
C3_AmountMessage ==
    (op \in Writers /\ pc = "done" /\ (AmountNotPositive \/ AmountNotANumber)) =>
        /\ ReturnedFieldErrors
        /\ "amount" \in DOMAIN result.value.errors
        /\ Contains(result.value.errors.amount, "Amount must be greater than 0")

(* C4: when the statement fails, createInvoice returns exactly             *)
(* { message: 'Database error' } and updateInvoice exactly                 *)
(* { message: 'Database error: Faild to Update' }; the invocation ends by  *)
(* returning, and neither revalidates nor redirects.                       *)
C4_DatabaseError ==
    (op \in Writers /\ Occurred(SqlError(Statement))) =>
        /\ pc = "done"
        /\ ReturnedMessageOnly
        /\ result.value.message =
              (IF op = "createInvoice"
               THEN "Database error"
               ELSE "Database error: Faild to Update")
        /\ ~Occurred(RevalidatePathCall)
        /\ ~Occurred(RedirectCall)
        /\ invoices = before

C4_Witness ==
    /\ op = "updateInvoice"
    /\ pc = "done"
    /\ events = FailureEvents
    /\ \E r \in invoices : r.id = args.id
    /\ result = Return([message |-> "Database error: Faild to Update"])

(* C5: deleteInvoice, for every identifier and in every state of the       *)
(* table, raises Error('Faild to Delete'), issues no DELETE, revalidates   *)
(* nothing and leaves the table exactly as it was.                         *)
C5_DeleteRaises ==
    (op = "deleteInvoice") =>
        /\ pc = "done"
        /\ result.kind = "throw"
        /\ result.value = Error("Faild to Delete")
        /\ events = <<>>
        /\ invoices = before

C5_Witness ==
    /\ op = "deleteInvoice"
    /\ pc = "done"
    /\ \E r \in invoices : r.id = args.id
    /\ Cardinality(invoices) = MaxRows
    /\ result.kind = "throw"

(* C6: authenticate ends as the signIn call ends: an AuthError of type     *)
(* CredentialsSignin gives 'Invalid credentials.', an AuthError of any     *)
(* other type gives 'Someting went wrong', any other error is raised again *)
(* unchanged and never turned into a message; signIn is called once.       *)
C6_Authenticate ==
    (op = "authenticate") =>
        /\ Count(SignInCall) = 1
        /\ Len(events) = 1
        /\ (pc = "done" /\ provider.kind = "throw") =>
              IF provider.value.class = "AuthError"
              THEN /\ result.kind = "return"
                   /\ result.value =
                         (IF provider.value.type = "CredentialsSignin"
                          THEN "Invalid credentials."
                          ELSE "Someting went wrong")
              ELSE /\ result.kind = "throw"
                   /\ result.value = provider.value

C6_Witness ==
    /\ op = "authenticate"
    /\ pc = "done"
    /\ provider = Throw(AuthError("CallbackRouteError"))
    /\ result.kind = "return"
    /\ result.value = "Someting went wrong"

(* C7: in createInvoice and updateInvoice the outward calls of a           *)
(* successful statement are, in this order and once each, the statement,   *)
(* revalidatePath('/dashboard/invoices'), redirect('/dashboard/invoices'); *)
(* the invocation then ends with the redirect signal and no returned       *)
(* message; a redirect happens only after a successful statement; every    *)
(* finished invocation ended in exactly one of field errors, a             *)
(* database-error message, or the redirect.                                *)
C7_SuccessOrder ==
    (op \in Writers) =>
        /\ \/ \E n \in 0..3 : events = SubSeq(SuccessEvents, 1, n)
           \/ events = FailureEvents
        /\ (pc = "done") =
              (events = SuccessEvents \/ events = FailureEvents \/ FailsValidation)
        /\ (pc = "done") =>
              /\ (events = SuccessEvents) = Redirected
              /\ (events = FailureEvents) = ReturnedMessageOnly
              /\ (events = <<>>) = ReturnedFieldErrors
              /\ Cardinality({k \in {"fieldErrors", "message", "redirect"} :
                     \/ k = "fieldErrors" /\ ReturnedFieldErrors
                     \/ k = "message" /\ ReturnedMessageOnly
                     \/ k = "redirect" /\ Redirected}) = 1

C7_Witness ==
    /\ op = "createInvoice"
    /\ pc = "done"
    /\ events = SuccessEvents
    /\ Redirected

(* C8: every row of the table has a status in {pending, paid} and an       *)
(* amount that is an integer number of cents greater than 0, the validated *)
(* amount times 100 truncated to an integer.                               *)
Truncated(cents) == (cents \div Scale) * Scale

C8_RowsAreIntegerCents ==
    /\ \A r \in invoices :
          /\ r.status \in StatusValues
          /\ r.amount % Scale = 0
          /\ r.amount > 0
    /\ (op = "createInvoice" /\ Occurred(SqlOk("INSERT"))) =>
          \E r \in invoices \ before :
              r.amount = Truncated(CoerceNumber(Submitted.amount).v * 100)

(* C9: a createInvoice whose insert succeeds adds exactly one row, with    *)
(* the submitted customerId, the submitted amount times 100 (12.34 gives   *)
(* 1234), the submitted status and the UTC calendar day of the clock at    *)
(* the call; every row that was there is unchanged.                        *)
C9_InsertedRow ==
    (op = "createInvoice" /\ Occurred(SqlOk("INSERT"))) =>
        /\ before \subseteq invoices
        /\ Cardinality(invoices \ before) = 1
        /\ \A r \in invoices \ before :
              /\ \A b \in before : b.id # r.id
              /\ r.customer_id = Submitted.customerId.text
              /\ r.amount = CoerceNumber(Submitted.amount).v * 100
              /\ (Submitted.amount.text = <<"1", "2", ".", "3", "4">>) =>
                    r.amount = 1234 * Scale
              /\ r.status = Submitted.status.text
              /\ r.date = startedAt \div HoursPerDay

C9_Witness ==
    /\ op = "createInvoice"
    /\ pc = "done"
    /\ Occurred(SqlOk("INSERT"))
    /\ now \div HoursPerDay # startedAt \div HoursPerDay
    /\ \E r \in invoices \ before :
          /\ r.customer_id = "c1"
          /\ r.amount = 1234 * Scale
          /\ r.status = "pending"
          /\ r.date = startedAt \div HoursPerDay

(* C10: an updateInvoice whose statement succeeds changes customer_id,     *)
(* amount and status of the row with the given id and nothing else: that   *)
(* row keeps its id and date, every other row is unchanged, no row is      *)
(* added or removed; when no row has the id the table is unchanged, and    *)
(* the invocation still revalidates and redirects.                         *)
C10_UpdateFrame ==
    (op = "updateInvoice" /\ Occurred(SqlOk("UPDATE"))) =>
        /\ Cardinality(invoices) = Cardinality(before)
        /\ \A b \in before :
              IF b.id = args.id
              THEN [id |-> b.id,
                    customer_id |-> Submitted.customerId.text,
                    amount |-> CoerceNumber(Submitted.amount).v * 100,
                    status |-> Submitted.status.text,
                    date |-> b.date] \in invoices
              ELSE b \in invoices
        /\ (\A b \in before : b.id # args.id) => invoices = before
        /\ (pc = "done") => (events = SuccessEvents /\ Redirected)

C10_Witness ==
    /\ op = "updateInvoice"
    /\ pc = "done"
    /\ events = SuccessEvents
    /\ Cardinality(before) = 2
    /\ \E b \in before :
          /\ b.id = args.id
          /\ b.customer_id # Submitted.customerId.text
          /\ b.status # Submitted.status.text
          /\ b.amount # CoerceNumber(Submitted.amount).v * 100
          /\ b \notin invoices

C10_WitnessNoRow ==
    /\ op = "updateInvoice"
    /\ pc = "done"
    /\ events = SuccessEvents
    /\ \A b \in before : b.id # args.id
    /\ invoices = before

====
